---------------------------- MODULE Spec2Model ----------------------------
(***************************************************************************)
(* A model of go-asset-mapper: the asset registry (Assets, Entries), the   *)
(* operations that fill it (NewAsset, AddAsset, ScanDir, UseManifest,      *)
(* CreateEntry) and the lookups and tag renderers that read it (Get,       *)
(* ScriptTag, LinkTag, CSSLinkTagsFromEntry, JSScriptTagsFromEntry).       *)
(*                                                                         *)
(* A Go string is modelled as a sequence of one-character strings, so that *)
(* concatenation, trimming, suffix matching and HTML escaping are computed *)
(* character by character as the code computes them.                       *)
(***************************************************************************)
EXTENDS Integers, Sequences, FiniteSets, TLC

VARIABLES PublicPath, HashLen, Assets, Entries, crashed, calls, last

vars == <<PublicPath, HashLen, Assets, Entries, crashed, calls, last>>

(***************************************************************************)
(* Bounds of the model                                                     *)
(***************************************************************************)
\* calls that change the registry, in one run of the program
MaxCalls == 3

(***************************************************************************)
(* Strings                                                                 *)
(***************************************************************************)
Empty == << >>
Slash == <<"/">>
QueryV == <<"?", "v", "=">>

HasPrefix(s, p) == Len(p) <= Len(s) /\ SubSeq(s, 1, Len(p)) = p

HasSuffix(s, x) == Len(x) <= Len(s) /\ SubSeq(s, Len(s) - Len(x) + 1, Len(s)) = x

\* strings.TrimPrefix: one occurrence of the prefix is removed
TrimPrefix(s, p) == IF HasPrefix(s, p) THEN SubSeq(s, Len(p) + 1, Len(s)) ELSE s

\* strings.TrimLeft: every leading character of the cutset is removed
RECURSIVE TrimLeft(_, _)
TrimLeft(s, cutset) ==
    IF s # Empty /\ Head(s) \in cutset THEN TrimLeft(Tail(s), cutset) ELSE s

RECURSIVE Join(_, _)
Join(ss, sep) ==
    IF ss = << >> THEN Empty
    ELSE IF Len(ss) = 1 THEN ss[1]
    ELSE ss[1] \o sep \o Join(Tail(ss), sep)

Range(f) == {f[i] : i \in DOMAIN f}

\* the map m with key k set to v
MapPut(m, k, v) == [x \in DOMAIN m \cup {k} |-> IF x = k THEN v ELSE m[x]]

EmptyMap == [x \in {} |-> Empty]

(***************************************************************************)
(* Classifier                                                              *)
(***************************************************************************)
cssRe == <<".", "c", "s", "s">>
jsRe == <<".", "j", "s">>

isCSS(path) == HasSuffix(path, cssRe)

isJS(path) == HasSuffix(path, jsRe)

(***************************************************************************)
(* Asset and NewAsset                                                      *)
(***************************************************************************)
\* length of a hex-encoded SHA-256 digest
DigestHexLen == 64

HexDigits == <<"0", "1", "2", "3", "4", "5", "6", "7", "8", "9", "a", "b", "c", "d", "e", "f">>

\* hex.EncodeToString(sha256(content)): a fixed string of DigestHexLen hex
\* digits for each content, different for the contents of the model
Digest(content) == [i \in 1..DigestHexLen |-> HexDigits[((content * 7 + i * 3) % 16) + 1]]

Asset(path, hash, publicPath) == [Path |-> path, Hash |-> hash, PublicPath |-> publicPath]

NoAsset == Asset(Empty, Empty, Empty)

\* NewAsset with the "?v=" suffix appended whether or not hashing is on
NewAsset_AlwaysQuery(path, publicPath, hashLen, file) ==
    LET p == TrimPrefix(path, Slash)
    IN  IF file.fault = "open" THEN [kind |-> "err", asset |-> NoAsset]
        ELSE IF hashLen > 0 /\ file.fault = "read" THEN [kind |-> "err", asset |-> NoAsset]
        ELSE LET full == IF hashLen > 0 THEN Digest(file.content) ELSE Empty
             IN  IF hashLen < 0 \/ hashLen > Len(full)
                 THEN [kind |-> "panic", asset |-> NoAsset]
                 ELSE LET hash == SubSeq(full, 1, hashLen)
                      IN  [kind |-> "ok",
                           asset |-> Asset(p, hash, publicPath \o p \o QueryV \o hash)]

\* A file as os.Open and io.Copy see it: fault is "ok", "open" (os.Open
\* fails) or "read" (io.Copy fails); content names its bytes.
\* The result is [kind |-> "ok", asset], [kind |-> "err"] or
\* [kind |-> "panic"] (hash[0:hashLen] out of range).
NewAsset(path, publicPath, hashLen, file) ==
    LET p == TrimPrefix(path, Slash)
    IN  IF file.fault = "open" THEN [kind |-> "err", asset |-> NoAsset]
        ELSE IF hashLen > 0 /\ file.fault = "read" THEN [kind |-> "err", asset |-> NoAsset]
        ELSE LET full == IF hashLen > 0 THEN Digest(file.content) ELSE Empty
             IN  IF hashLen < 0 \/ hashLen > Len(full)
                 THEN [kind |-> "panic", asset |-> NoAsset]
                 ELSE LET hash == SubSeq(full, 1, hashLen)
                          pubPath == IF hashLen > 0
                                     THEN publicPath \o p \o QueryV \o hash
                                     ELSE publicPath \o p
                      IN  [kind |-> "ok", asset |-> Asset(p, hash, pubPath)]

(***************************************************************************)
(* Registry                                                                *)
(***************************************************************************)
\* AssetMapper.AddAsset on the map m
AddAsset(m, asset, renew) ==
    IF ~renew /\ asset.Path \in DOMAIN m THEN m
    ELSE MapPut(MapPut(m, asset.Path, asset), asset.PublicPath, asset)

extractAssetPathFromMap(m, search) ==
    LET s == TrimLeft(search, {"/"})
    IN  IF s \in DOMAIN m THEN m[s].PublicPath ELSE s

Get(path) == extractAssetPathFromMap(Assets, path)

(***************************************************************************)
(* Entries                                                                 *)
(***************************************************************************)
NewEntry == [CSS |-> << >>, JS |-> << >>]

\* CreateEntry without the test for an existing entry
CreateEntry_Reset(entries, name) == MapPut(entries, name, NewEntry)

\* AssetMapper.CreateEntry on the map of entries
CreateEntry(entries, name) ==
    IF name \in DOMAIN entries THEN entries ELSE MapPut(entries, name, NewEntry)

\* Add with the classifier left out: every path goes to the script list
Add_AlwaysJS(entry, path) == [entry EXCEPT !.JS = Append(@, path)]

\* AssetMapperEntry.Add
Add(entry, path) ==
    IF isCSS(path) THEN [entry EXCEPT !.CSS = Append(@, path)]
    ELSE IF isJS(path) THEN [entry EXCEPT !.JS = Append(@, path)]
    ELSE entry

RECURSIVE AddAll_NoPrefix(_, _, _)
\* the loop over a record's css list with the public path prefix left out
AddAll_NoPrefix(entry, publicPath, css) ==
    IF css = << >> THEN entry
    ELSE AddAll_NoPrefix(Add(entry, Head(css)), publicPath, Tail(css))

RECURSIVE AddAll(_, _, _)
\* the loop of parseViteManifest over a record's css list
AddAll(entry, publicPath, css) ==
    IF css = << >> THEN entry
    ELSE AddAll(Add(entry, publicPath \o Head(css)), publicPath, Tail(css))

CSSEntry(name) == IF name \in DOMAIN Entries THEN Entries[name].CSS ELSE << >>

JSEntry(name) == IF name \in DOMAIN Entries THEN Entries[name].JS ELSE << >>

(***************************************************************************)
(* Manifests                                                               *)
(*                                                                         *)
(* A manifest file is a sequence of JSON documents.  A document that       *)
(* decodes is the sequence recs of its records in the order Go's map       *)
(* iteration visits them (any order of its keys); a document with          *)
(* ok = FALSE does not decode.  A record of the flat Webpack dialect has   *)
(* only Key and File.                                                      *)
(***************************************************************************)
Record(key, file, name, isEntry, css) ==
    [Key |-> key, File |-> file, Name |-> name, IsEntry |-> isEntry, CSS |-> css]

\* one iteration of the loop over the records of a Vite document
viteRecord(st, publicPath, r) ==
    LET asset == Asset(r.Key, Empty, publicPath \o r.File)
        assets == MapPut(st.Assets, r.Key, asset)
    IN  IF r.IsEntry
        THEN LET created == CreateEntry(st.Entries, r.Name)
                 entry == AddAll(Add(created[r.Name], asset.PublicPath), publicPath, r.CSS)
             IN  [Assets |-> assets, Entries |-> MapPut(created, r.Name, entry)]
        ELSE [Assets |-> assets, Entries |-> st.Entries]

\* one iteration of the loop over the keys of a Webpack document
webpackRecord(st, publicPath, r) ==
    [Assets |-> MapPut(st.Assets, r.Key, Asset(r.Key, Empty, publicPath)),
     Entries |-> st.Entries]

RECURSIVE viteRecords(_, _, _)
viteRecords(st, publicPath, recs) ==
    IF recs = << >> THEN st
    ELSE viteRecords(viteRecord(st, publicPath, Head(recs)), publicPath, Tail(recs))

RECURSIVE webpackRecords(_, _, _)
webpackRecords(st, publicPath, recs) ==
    IF recs = << >> THEN st
    ELSE webpackRecords(webpackRecord(st, publicPath, Head(recs)), publicPath, Tail(recs))

RECURSIVE parseViteDocs(_, _, _)
\* the decoder loop: stops with the decode error at the first document
\* that does not decode, keeping what the earlier documents registered
parseViteDocs(st, publicPath, docs) ==
    IF docs = << >> THEN [Assets |-> st.Assets, Entries |-> st.Entries, err |-> ""]
    ELSE IF ~Head(docs).ok THEN [Assets |-> st.Assets, Entries |-> st.Entries, err |-> "decode"]
    ELSE parseViteDocs(viteRecords(st, publicPath, Head(docs).recs), publicPath, Tail(docs))

RECURSIVE parseWebpackDocs(_, _, _)
parseWebpackDocs(st, publicPath, docs) ==
    IF docs = << >> THEN [Assets |-> st.Assets, Entries |-> st.Entries, err |-> ""]
    ELSE IF ~Head(docs).ok THEN [Assets |-> st.Assets, Entries |-> st.Entries, err |-> "decode"]
    ELSE parseWebpackDocs(webpackRecords(st, publicPath, Head(docs).recs), publicPath, Tail(docs))

parseViteManifest(st, publicPath, manifest) ==
    IF manifest.fault = "open"
    THEN [Assets |-> st.Assets, Entries |-> st.Entries, err |-> "open"]
    ELSE parseViteDocs(st, publicPath, manifest.docs)

parseWebpackManifest(st, publicPath, manifest) ==
    IF manifest.fault = "open"
    THEN [Assets |-> st.Assets, Entries |-> st.Entries, err |-> "open"]
    ELSE parseWebpackDocs(st, publicPath, manifest.docs)

\* AssetMapper.UseManifest
UseManifest(st, publicPath, manifest) ==
    IF manifest.Type = "vite" THEN parseViteManifest(st, publicPath, manifest)
    ELSE IF manifest.Type = "webpack" THEN parseWebpackManifest(st, publicPath, manifest)
    ELSE [Assets |-> st.Assets, Entries |-> st.Entries, err |-> "undefined manifest type"]

(***************************************************************************)
(* Directory scan                                                          *)
(*                                                                         *)
(* A walk is the sequence of entries filepath.Walk visits, in its lexical  *)
(* order, when the callback never stops it: [path, isDir, fault, content]. *)
(* fault is "ok", "lstat" (Lstat of the entry fails: Walk calls the        *)
(* callback with a nil info), "readdir" (the directory cannot be listed:   *)
(* Walk calls the callback with its info and the error, and the entries    *)
(* below it are not in the walk), "open" or "read" (of a file).            *)
(***************************************************************************)
\* the callback ScanDir hands to filepath.Walk, for one entry
walkFn(m, publicPath, hashLen, e) ==
    IF e.fault = "lstat" THEN [kind |-> "panic", Assets |-> m, added |-> << >>]
    ELSE IF e.isDir THEN [kind |-> "nil", Assets |-> m, added |-> << >>]
    ELSE LET r == NewAsset(e.path, publicPath, hashLen, e)
         IN  IF r.kind # "ok" THEN [kind |-> r.kind, Assets |-> m, added |-> << >>]
             ELSE [kind |-> "nil",
                   Assets |-> AddAsset(m, r.asset, FALSE),
                   added |-> IF r.asset.Path \in DOMAIN m THEN << >> ELSE <<r.asset>>]

RECURSIVE walkFrom(_, _, _, _, _)
walkFrom(m, publicPath, hashLen, walk, added) ==
    IF walk = << >> THEN [kind |-> "nil", Assets |-> m, added |-> added]
    ELSE LET r == walkFn(m, publicPath, hashLen, Head(walk))
         IN  IF r.kind # "nil"
             THEN [kind |-> r.kind, Assets |-> r.Assets, added |-> added]
             ELSE walkFrom(r.Assets, publicPath, hashLen, Tail(walk), added \o r.added)

\* AssetMapper.ScanDir: kind is "nil" (no error), "err" (the error is
\* returned) or "panic"; added lists the assets AddAsset stored
ScanDir(m, publicPath, hashLen, walk) == walkFrom(m, publicPath, hashLen, walk, << >>)

(***************************************************************************)
(* Tag rendering                                                           *)
(***************************************************************************)
Async == <<"a", "s", "y", "n", "c">>
Defer == <<"d", "e", "f", "e", "r">>
Src == <<"s", "r", "c">>
Href == <<"h", "r", "e", "f">>
Rel == <<"r", "e", "l">>
Stylesheet == <<"s", "t", "y", "l", "e", "s", "h", "e", "e", "t">>
Space == <<" ">>
Quote == <<"\"">>

\* html.EscapeString, for one character
escapeChar(c) ==
    IF c = "&" THEN <<"&", "a", "m", "p", ";">>
    ELSE IF c = "'" THEN <<"&", "#", "3", "9", ";">>
    ELSE IF c = "<" THEN <<"&", "l", "t", ";">>
    ELSE IF c = ">" THEN <<"&", "g", "t", ";">>
    ELSE IF c = "\"" THEN <<"&", "#", "3", "4", ";">>
    ELSE <<c>>

RECURSIVE EscapeString(_)
EscapeString(s) == IF s = Empty THEN Empty ELSE escapeChar(Head(s)) \o EscapeString(Tail(s))

\* attribute with the key written as it is, only the value escaped
attribute_RawKey(m, k) ==
    IF k = Async \/ k = Defer THEN k
    ELSE k \o <<"=">> \o Quote \o EscapeString(m[k]) \o Quote

\* what attributeMapToString appends for the key k of the map m
attribute(m, k) ==
    IF k = Async \/ k = Defer THEN k
    ELSE EscapeString(k) \o <<"=">> \o Quote \o EscapeString(m[k]) \o Quote

\* the orders in which a range over the map m may visit its keys
KeyOrders(m) ==
    {o \in [1..Cardinality(DOMAIN m) -> DOMAIN m] : Range(o) = DOMAIN m}

\* attributeMapToString: one string for each order of the map's iteration
attributeMapToString(m) ==
    {Join([i \in DOMAIN o |-> attribute(m, o[i])], Space) : o \in KeyOrders(m)}

RECURSIVE attrPairs(_, _)
\* the loop of tagAttributes: a later pair replaces an earlier one of its key
attrPairs(m, attrs) ==
    IF Len(attrs) < 2 THEN m
    ELSE attrPairs(MapPut(m, attrs[1], attrs[2]), SubSeq(attrs, 3, Len(attrs)))

\* tagAttributes without the check of the list's length
tagAttributes_NoCheck(attrs) == [err |-> "", attrMap |-> attrPairs(EmptyMap, attrs)]

tagAttributes(attrs) ==
    IF Len(attrs) % 2 # 0
    THEN [err |-> "attrs must be an even number of strings", attrMap |-> EmptyMap]
    ELSE [err |-> "", attrMap |-> attrPairs(EmptyMap, attrs)]

scriptTag(attrs) ==
    <<"<", "s", "c", "r", "i", "p", "t", " ">> \o attrs
        \o <<">", "<", "/", "s", "c", "r", "i", "p", "t", ">">>

linkTag(attrs) == <<"<", "l", "i", "n", "k", " ">> \o attrs \o <<"/", ">">>

\* AssetMapper.ScriptTag: the results [out, err] it may return
ScriptTag(path, attrs) ==
    LET link == Get(path)
        t == tagAttributes(attrs)
        attrMap == MapPut(t.attrMap, Src, link)
    IN  IF t.err # "" THEN {[out |-> Empty, err |-> t.err, attrMap |-> EmptyMap]}
        ELSE {[out |-> scriptTag(a), err |-> "", attrMap |-> attrMap] :
                 a \in attributeMapToString(attrMap)}

\* LinkTag with the default rel pair put after the caller's pairs
LinkTag_DefaultLast(path, attrs) ==
    LET link == Get(path)
        t == tagAttributes(attrs \o <<Rel, Stylesheet>>)
        attrMap == MapPut(t.attrMap, Href, link)
    IN  IF t.err # "" THEN {[out |-> Empty, err |-> t.err, attrMap |-> EmptyMap]}
        ELSE {[out |-> linkTag(a), err |-> "", attrMap |-> attrMap] :
                 a \in attributeMapToString(attrMap)}

\* AssetMapper.LinkTag
LinkTag(path, attrs) ==
    LET link == Get(path)
        t == tagAttributes(<<Rel, Stylesheet>> \o attrs)
        attrMap == MapPut(t.attrMap, Href, link)
    IN  IF t.err # "" THEN {[out |-> Empty, err |-> t.err, attrMap |-> EmptyMap]}
        ELSE {[out |-> linkTag(a), err |-> "", attrMap |-> attrMap] :
                 a \in attributeMapToString(attrMap)}

RECURSIVE cssLinkTags(_, _)
\* the loop of CSSLinkTagsFromEntry over the entry's stylesheets
cssLinkTags(attrMap, paths) ==
    IF paths = << >> THEN {<< >>}
    ELSE {<<linkTag(a)>> \o rest :
             a \in attributeMapToString(MapPut(attrMap, Href, Head(paths))),
             rest \in cssLinkTags(MapPut(attrMap, Href, Head(paths)), Tail(paths))}

RECURSIVE jsScriptTags(_, _)
\* the loop of JSScriptTagsFromEntry over the entry's scripts
jsScriptTags(attrMap, paths) ==
    IF paths = << >> THEN {<< >>}
    ELSE {<<scriptTag(a)>> \o rest :
             a \in attributeMapToString(MapPut(attrMap, Src, Head(paths))),
             rest \in jsScriptTags(MapPut(attrMap, Src, Head(paths)), Tail(paths))}

\* AssetMapper.CSSLinkTagsFromEntry
CSSLinkTagsFromEntry(name, attrs) ==
    LET t == tagAttributes(<<Rel, Stylesheet>> \o attrs)
    IN  IF t.err # "" THEN {[out |-> << >>, err |-> t.err]}
        ELSE {[out |-> tags, err |-> ""] : tags \in cssLinkTags(t.attrMap, CSSEntry(name))}

\* AssetMapper.JSScriptTagsFromEntry
JSScriptTagsFromEntry(name, attrs) ==
    LET t == tagAttributes(attrs)
    IN  IF t.err # "" THEN {[out |-> << >>, err |-> t.err]}
        ELSE {[out |-> tags, err |-> ""] : tags \in jsScriptTags(t.attrMap, JSEntry(name))}

(***************************************************************************)
(* Inputs of the model                                                     *)
(***************************************************************************)
PathRoot == <<".">>
PathS == <<"s">>
PathST == <<"s", "/", "t", ".", "j", "s">>
PathT == <<"t", ".", "j", "s">>
PathAbsS == <<"/", "s">>
PathAbsST == <<"/", "s", "/", "t", ".", "j", "s">>
PathAbsT == <<"/", "t", ".", "j", "s">>
PathRaw == <<"r", ".", "d", "o", "c">>
PathAbsRaw == <<"/", "/", "r", ".", "d", "o", "c">>

FileO == <<"o", ".", "j", "s">>
FileP == <<"p", ".", "j", "s">>
FileOCss == <<"o", ".", "c", "s", "s">>
FilePng == <<"i", ".", "p", "n", "g">>
FileQCss == <<"q", ".", "c", "s", "s">>
NameApp == <<"a", "p", "p">>

DefaultPublicPath == Slash
Prefixes == {Slash, <<"s", "/">>}

DefaultHashLen == 10
HashLens == {-1, 0, DefaultHashLen, DigestHexLen + 1}

Contents == {1, 2}

Dir(path, fault) == [path |-> path, isDir |-> TRUE, fault |-> fault, content |-> 0]
File(path, fault, content) == [path |-> path, isDir |-> FALSE, fault |-> fault, content |-> content]

\* the tree ./s/t.js, ./t.js walked from ".", and /s/t.js walked from "/s"
WalkRel == <<Dir(PathRoot, "ok"), Dir(PathS, "ok"), File(PathST, "ok", 1), File(PathT, "ok", 1)>>
WalkAbs == <<Dir(PathAbsS, "ok"), File(PathAbsST, "ok", 1)>>

\* the same tree with one failing entry
FaultyWalks ==
    { <<Dir(PathRoot, "lstat")>>,
      <<Dir(PathRoot, "readdir")>>,
      <<Dir(PathRoot, "ok"), Dir(PathS, "readdir"), File(PathT, "ok", 1)>>,
      <<Dir(PathRoot, "ok"), Dir(PathS, "ok"), File(PathST, "ok", 1), File(PathT, "lstat", 1)>>,
      <<Dir(PathRoot, "ok"), Dir(PathS, "ok"), File(PathST, "open", 1), File(PathT, "ok", 1)>>,
      <<Dir(PathRoot, "ok"), Dir(PathS, "ok"), File(PathST, "ok", 1), File(PathT, "read", 1)>> }

Walks == {WalkRel, WalkAbs} \cup FaultyWalks

Doc(recs) == [ok |-> TRUE, recs |-> recs]
BadDoc == [ok |-> FALSE, recs |-> << >>]
Manifest(type, fault, docs) == [Type |-> type, fault |-> fault, docs |-> docs]
NoManifest == Manifest("", "ok", << >>)

RecApp == Record(PathT, FileO, NameApp, TRUE, <<FileOCss>>)
RecAppCss == Record(PathT, FileOCss, NameApp, TRUE, << >>)
RecAppPng == Record(PathT, FilePng, NameApp, TRUE, << >>)
RecAppTwo == Record(PathST, FileP, NameApp, TRUE, << >>)
\* an entry whose css list holds a script and an image between two stylesheets
RecAppMixed == Record(PathT, FileO, NameApp, TRUE, <<FileOCss, FileP, FilePng, FileQCss>>)
RecSlash == Record(PathAbsT, FileP, Empty, FALSE, << >>)
RecAgain == Record(PathT, FileP, Empty, FALSE, << >>)

ViteManifests ==
    { Manifest("vite", "ok", <<Doc(<<RecApp>>)>>),
      Manifest("vite", "ok", <<Doc(<<RecAppCss>>)>>),
      Manifest("vite", "ok", <<Doc(<<RecAppMixed>>)>>),
      Manifest("vite", "ok", <<Doc(<<RecAppPng, RecAppTwo>>)>>),
      Manifest("vite", "ok", <<Doc(<<RecSlash>>)>>),
      Manifest("vite", "ok", <<Doc(<<RecApp>>), Doc(<<RecAgain>>)>>),
      Manifest("vite", "ok", <<Doc(<<RecAgain>>), BadDoc>>),
      Manifest("vite", "open", << >>) }

WebpackManifests ==
    { Manifest("webpack", "ok", <<Doc(<<Record(PathT, FileO, Empty, FALSE, << >>)>>)>>),
      Manifest("webpack", "ok", <<BadDoc>>),
      Manifest("webpack", "open", << >>) }

Manifests == ViteManifests \cup WebpackManifests \cup {Manifest("other", "ok", << >>)}

\* the orders in which the records of a sequence may be visited
Perms(s) == {[i \in DOMAIN s |-> s[p[i]]] : p \in Permutations(DOMAIN s)}

RECURSIVE DocOrders(_)
DocOrders(docs) ==
    IF docs = << >> THEN {<< >>}
    ELSE {<<[Head(docs) EXCEPT !.recs = r]>> \o rest :
             r \in Perms(Head(docs).recs), rest \in DocOrders(Tail(docs))}

Decoded(manifests) == UNION {{[m EXCEPT !.docs = ds] : ds \in DocOrders(m.docs)} : m \in manifests}

AddPaths == {PathT}
EntryNames == {NameApp}
EntryPaths == {Slash \o FileP, Slash \o FileQCss, FilePng}
GetPaths == {PathT, PathAbsST, PathRaw, PathAbsRaw, PathAbsT}

KeyId == <<"i", "d">>
KeyLt == <<"k", "<", ">">>
ValX == <<"x">>
ValRaw == <<"<", "\"", "&", ">", "'">>
PathQuote == <<"q", "\"", "&">>

TagPaths == {PathT, PathQuote}
AttrLists ==
    { << >>,
      <<KeyId>>,
      <<Defer, ValX>>,
      <<KeyLt, ValRaw>>,
      <<KeyId, ValX, Async>>,
      <<KeyId, ValX, KeyId, ValRaw>> }
ScriptAttrLists == AttrLists \cup {<<Src, ValX>>}
LinkAttrLists == AttrLists \cup {<<Rel, ValX>>, <<Href, ValX>>}
CSSEntryAttrLists == {<< >>, <<KeyId>>, <<Rel, ValRaw>>, <<Href, ValX>>}
JSEntryAttrLists == {<< >>, <<KeyId>>, <<Defer, ValX>>, <<Src, ValX>>}
TagEntryNames == {NameApp, Empty}

\* the registry the rendering calls are made on is filled from these
ReadWalks == {WalkRel}
ReadManifests == {Manifest("vite", "ok", <<Doc(<<RecApp>>)>>)}

(***************************************************************************)
(* State                                                                   *)
(***************************************************************************)
\* what the last call was, with its arguments (path, attrs, renew, walk,
\* manifest, content of the file) and what it did and returned: added are
\* the assets AddAsset stored, attrMap the attribute map that was rendered,
\* err the error ("" for none), out the string or the strings returned
NoCall ==
    [op |-> "init", path |-> Empty, attrs |-> << >>, renew |-> FALSE, added |-> << >>,
     walk |-> << >>, manifest |-> NoManifest, attrMap |-> EmptyMap, err |-> "", out |-> << >>,
     content |-> 0]

\* NewAssetMapper
Init ==
    /\ PublicPath = DefaultPublicPath
    /\ HashLen = DefaultHashLen
    /\ Assets = EmptyMap
    /\ Entries = EmptyMap
    /\ crashed = FALSE
    /\ calls = 0
    /\ last = NoCall

(***************************************************************************)
(* Calls                                                                   *)
(***************************************************************************)
\* the caller sets the PublicPath field, before the registry is filled
SetPublicPath(p) ==
    /\ ~crashed /\ Assets = EmptyMap /\ Entries = EmptyMap /\ p # PublicPath
    /\ PublicPath' = p
    /\ last' = [NoCall EXCEPT !.op = "SetPublicPath", !.path = p]
    /\ UNCHANGED <<HashLen, Assets, Entries, crashed, calls>>

\* the caller sets the HashLen field, before the registry is filled
SetHashLen(n) ==
    /\ ~crashed /\ Assets = EmptyMap /\ Entries = EmptyMap /\ n # HashLen
    /\ HashLen' = n
    /\ last' = [NoCall EXCEPT !.op = "SetHashLen"]
    /\ UNCHANGED <<PublicPath, Assets, Entries, crashed, calls>>

\* the caller builds an asset with NewAsset and adds it
CallAddAsset(path, content, renew) ==
    LET r == NewAsset(path, PublicPath, HashLen, File(path, "ok", content))
        stored == r.kind = "ok" /\ (renew \/ r.asset.Path \notin DOMAIN Assets)
    IN  /\ ~crashed /\ calls < MaxCalls /\ calls' = calls + 1
        /\ Assets' = IF r.kind = "ok" THEN AddAsset(Assets, r.asset, renew) ELSE Assets
        /\ crashed' = (r.kind = "panic")
        /\ last' = [NoCall EXCEPT !.op = "AddAsset", !.path = path, !.renew = renew,
                                  !.content = content,
                                  !.added = IF stored THEN <<r.asset>> ELSE << >>,
                                  !.err = IF r.kind = "err" THEN "io" ELSE ""]
        /\ UNCHANGED <<PublicPath, HashLen, Entries>>

CallScanDir(walk) ==
    LET r == ScanDir(Assets, PublicPath, HashLen, walk)
    IN  /\ ~crashed /\ calls < MaxCalls /\ calls' = calls + 1
        /\ Assets' = r.Assets
        /\ crashed' = (r.kind = "panic")
        /\ last' = [NoCall EXCEPT !.op = "ScanDir", !.walk = walk,
                                  !.added = r.added, !.err = IF r.kind = "err" THEN "io" ELSE ""]
        /\ UNCHANGED <<PublicPath, HashLen, Entries>>

CallUseManifest(manifest) ==
    LET r == UseManifest([Assets |-> Assets, Entries |-> Entries], PublicPath, manifest)
    IN  /\ ~crashed /\ calls < MaxCalls /\ calls' = calls + 1
        /\ Assets' = r.Assets
        /\ Entries' = r.Entries
        /\ last' = [NoCall EXCEPT !.op = "UseManifest", !.manifest = manifest, !.err = r.err]
        /\ UNCHANGED <<PublicPath, HashLen, crashed>>

CallCreateEntry(name) ==
    /\ ~crashed /\ calls < MaxCalls /\ calls' = calls + 1
    /\ Entries' = CreateEntry(Entries, name)
    /\ last' = [NoCall EXCEPT !.op = "CreateEntry", !.path = name]
    /\ UNCHANGED <<PublicPath, HashLen, Assets, crashed>>

\* the caller adds a path to an entry it got from CreateEntry
CallAdd(name, path) ==
    /\ ~crashed /\ calls < MaxCalls /\ calls' = calls + 1
    /\ name \in DOMAIN Entries
    /\ Entries' = [Entries EXCEPT ![name] = Add(@, path)]
    /\ last' = [NoCall EXCEPT !.op = "Add", !.path = path]
    /\ UNCHANGED <<PublicPath, HashLen, Assets, crashed>>

CallGet(path) ==
    /\ ~crashed
    /\ last' = [NoCall EXCEPT !.op = "Get", !.path = path, !.out = Get(path)]
    /\ UNCHANGED <<PublicPath, HashLen, Assets, Entries, crashed, calls>>

\* attributeMapToString on the map tagAttributes builds from a list
CallAttributeMapToString(attrs) ==
    LET t == tagAttributes(attrs)
    IN  /\ ~crashed /\ t.err = ""
        /\ \E a \in attributeMapToString(t.attrMap) :
              last' = [NoCall EXCEPT !.op = "attributeMapToString", !.attrs = attrs,
                                     !.attrMap = t.attrMap, !.out = a]
        /\ UNCHANGED <<PublicPath, HashLen, Assets, Entries, crashed, calls>>

CallScriptTag(path, attrs) ==
    /\ ~crashed
    /\ \E r \in ScriptTag(path, attrs) :
          last' = [NoCall EXCEPT !.op = "ScriptTag", !.path = path, !.attrs = attrs,
                                 !.attrMap = r.attrMap, !.out = r.out, !.err = r.err]
    /\ UNCHANGED <<PublicPath, HashLen, Assets, Entries, crashed, calls>>

CallLinkTag(path, attrs) ==
    /\ ~crashed
    /\ \E r \in LinkTag(path, attrs) :
          last' = [NoCall EXCEPT !.op = "LinkTag", !.path = path, !.attrs = attrs,
                                 !.attrMap = r.attrMap, !.out = r.out, !.err = r.err]
    /\ UNCHANGED <<PublicPath, HashLen, Assets, Entries, crashed, calls>>

CallCSSLinkTagsFromEntry(name, attrs) ==
    /\ ~crashed
    /\ \E r \in CSSLinkTagsFromEntry(name, attrs) :
          last' = [NoCall EXCEPT !.op = "CSSLinkTagsFromEntry", !.path = name, !.attrs = attrs,
                                 !.out = r.out, !.err = r.err]
    /\ UNCHANGED <<PublicPath, HashLen, Assets, Entries, crashed, calls>>

CallJSScriptTagsFromEntry(name, attrs) ==
    /\ ~crashed
    /\ \E r \in JSScriptTagsFromEntry(name, attrs) :
          last' = [NoCall EXCEPT !.op = "JSScriptTagsFromEntry", !.path = name, !.attrs = attrs,
                                 !.out = r.out, !.err = r.err]
    /\ UNCHANGED <<PublicPath, HashLen, Assets, Entries, crashed, calls>>

Next ==
    \/ \E p \in Prefixes : SetPublicPath(p)
    \/ \E n \in HashLens : SetHashLen(n)
    \/ \E path \in AddPaths, c \in Contents, renew \in BOOLEAN : CallAddAsset(path, c, renew)
    \/ \E walk \in Walks : CallScanDir(walk)
    \/ \E m \in Decoded(Manifests) : CallUseManifest(m)
    \/ \E name \in EntryNames : CallCreateEntry(name)
    \/ \E name \in EntryNames, path \in EntryPaths : CallAdd(name, path)

Spec == Init /\ [][Next]_vars

\* the lookups and the rendering calls, on a registry filled by a scan and
\* by manifests
NextRead ==
    \/ \E walk \in ReadWalks : CallScanDir(walk)
    \/ \E m \in Decoded(ReadManifests) : CallUseManifest(m)
    \/ \E path \in GetPaths : CallGet(path)
    \/ \E attrs \in AttrLists : CallAttributeMapToString(attrs)
    \/ \E path \in TagPaths, attrs \in ScriptAttrLists : CallScriptTag(path, attrs)
    \/ \E path \in TagPaths, attrs \in LinkAttrLists : CallLinkTag(path, attrs)
    \/ \E name \in TagEntryNames, attrs \in CSSEntryAttrLists : CallCSSLinkTagsFromEntry(name, attrs)
    \/ \E name \in TagEntryNames, attrs \in JSEntryAttrLists : CallJSScriptTagsFromEntry(name, attrs)

SpecRead == Init /\ [][NextRead]_vars

\* every operation: the lookups and the rendering calls between the calls
\* that fill the registry
NextAll ==
    \/ NextRead
    \/ \E path \in AddPaths, renew \in BOOLEAN : CallAddAsset(path, 1, renew)
    \/ \E name \in EntryNames : CallCreateEntry(name)
    \/ \E name \in EntryNames, path \in EntryPaths : CallAdd(name, path)

SpecAll == Init /\ [][NextAll]_vars

(***************************************************************************)
(* Helpers of the properties                                               *)
(***************************************************************************)
\* the records a load visits, in order: those of the documents before the
\* first one that does not decode (none when the file cannot be opened)
RECURSIVE Visited(_)
Visited(docs) ==
    IF docs = << >> \/ ~Head(docs).ok THEN << >>
    ELSE Head(docs).recs \o Visited(Tail(docs))

Processed(manifest) == IF manifest.fault = "ok" THEN Visited(manifest.docs) ELSE << >>

\* the index of the first failing entry of a walk (0 when there is none)
FirstFaultAt(walk) ==
    IF \E i \in DOMAIN walk : walk[i].fault # "ok"
    THEN CHOOSE i \in DOMAIN walk :
             walk[i].fault # "ok" /\ \A j \in 1..(i - 1) : walk[j].fault = "ok"
    ELSE 0

Count(s, c) == Cardinality({i \in DOMAIN s : s[i] = c})

RECURSIVE Flatten(_)
Flatten(ss) == IF ss = << >> THEN << >> ELSE Head(ss) \o Flatten(Tail(ss))

(***************************************************************************)
(* C1                                                                      *)
(***************************************************************************)
\* C1: after a scan, for every asset A the scan added, Get(A.Path) and
\* Get(A.PublicPath) both return A.PublicPath.
C1_RoundTrip ==
    last.op = "ScanDir" =>
        \A i \in DOMAIN last.added :
            /\ Get(last.added[i].Path) = last.added[i].PublicPath
            /\ Get(last.added[i].PublicPath) = last.added[i].PublicPath

(***************************************************************************)
(* C2                                                                      *)
(***************************************************************************)
\* C2: when the path given to Get resolves to no registered asset, Get
\* returns the path unchanged, leading "/" included.
C2_FallbackVerbatim ==
    (last.op = "Get" /\ TrimLeft(last.path, {"/"}) \notin DOMAIN Assets) =>
        last.out = last.path

(***************************************************************************)
(* C3                                                                      *)
(***************************************************************************)
\* C3: an AddAsset with renew = FALSE (a direct call, or the calls ScanDir
\* makes) leaves every key that was in Assets mapped to the same Asset.
C3_FirstWriteWins ==
    [][((last'.op = "AddAsset" /\ ~last'.renew) \/ last'.op = "ScanDir") =>
          \A k \in DOMAIN Assets : k \in DOMAIN Assets' /\ Assets'[k] = Assets[k]]_vars

(***************************************************************************)
(* C4                                                                      *)
(***************************************************************************)
\* the public path a manifest declares for the key k: that of the last
\* record of k it holds
DeclaredPath(manifest, k) ==
    LET recs == Processed(manifest)
        i == CHOOSE j \in DOMAIN recs :
                 recs[j].Key = k /\ \A l \in DOMAIN recs : l > j => recs[l].Key # k
    IN  IF manifest.Type = "vite" THEN PublicPath \o recs[i].File ELSE PublicPath

\* C4: after a successful UseManifest, Get(k) returns, for every key k the
\* manifest declares, the public path built from the manifest.
C4_ManifestAuthoritative ==
    (last.op = "UseManifest" /\ last.err = "") =>
        \A i \in DOMAIN Processed(last.manifest) :
            LET k == Processed(last.manifest)[i].Key
            IN  Get(k) = DeclaredPath(last.manifest, k)

C6_OwnPathInScripts ==
    (last.op = "UseManifest" /\ last.manifest.Type = "vite") =>
        \A i \in DOMAIN Processed(last.manifest) :
            LET r == Processed(last.manifest)[i]
            IN  r.IsEntry => (PublicPath \o r.File) \in Range(JSEntry(r.Name))

\* the paths a load feeds to the entry n, in order: for each visited entry
\* record of that name its own public path, then its stylesheets
RECURSIVE Fed(_, _)
Fed(recs, n) ==
    IF recs = << >> THEN << >>
    ELSE (IF Head(recs).IsEntry /\ Head(recs).Name = n
          THEN <<PublicPath \o Head(recs).File>>
                   \o [j \in DOMAIN Head(recs).CSS |-> PublicPath \o Head(recs).CSS[j]]
          ELSE << >>) \o Fed(Tail(recs), n)

EndsJs(path) == Len(path) >= 3 /\ SubSeq(path, Len(path) - 2, Len(path)) = <<".", "j", "s">>

EndsCss(path) ==
    Len(path) >= 4 /\ SubSeq(path, Len(path) - 3, Len(path)) = <<".", "c", "s", "s">>

\* C6 as amended: a Vite load appends the public path of a visited entry
\* record (like every path it feeds to the entry) to the script list of the
\* entry the record names when the path ends in ".js", to its stylesheet
\* list when it ends in ".css", and to neither list otherwise.
C6_OwnPathClassified ==
    [][(last'.op = "UseManifest" /\ last'.manifest.Type = "vite") =>
          \A i \in DOMAIN Processed(last'.manifest) :
              LET r == Processed(last'.manifest)[i]
                  old == IF r.Name \in DOMAIN Entries THEN Entries[r.Name] ELSE NewEntry
                  fed == Fed(Processed(last'.manifest), r.Name)
              IN  r.IsEntry =>
                      /\ r.Name \in DOMAIN Entries'
                      /\ Entries'[r.Name].JS = old.JS \o SelectSeq(fed, EndsJs)
                      /\ Entries'[r.Name].CSS = old.CSS \o SelectSeq(fed, EndsCss)]_vars

\* a load visited an entry record whose file is a stylesheet: its public
\* path is in the entry's stylesheet list and not in its script list
C6_Witness ==
    /\ last.op = "UseManifest" /\ last.manifest.Type = "vite"
    /\ \E i \in DOMAIN Processed(last.manifest) :
          LET r == Processed(last.manifest)[i]
          IN  /\ r.IsEntry /\ r.File = FileOCss
              /\ (PublicPath \o r.File) \in Range(CSSEntry(r.Name))
              /\ (PublicPath \o r.File) \notin Range(JSEntry(r.Name))

(***************************************************************************)
(* C7                                                                      *)
(***************************************************************************)
TagOps == {"ScriptTag", "LinkTag", "CSSLinkTagsFromEntry", "JSScriptTagsFromEntry"}

\* C7: a tag call with an odd number of attribute strings returns an error
\* and no markup, one with an even number returns no error, and neither
\* changes Assets or Entries.
C7_OddAttributeList ==
    [][last'.op \in TagOps =>
          /\ (Len(last'.attrs) % 2 = 1) => (last'.err # "" /\ last'.out = << >>)
          /\ (Len(last'.attrs) % 2 = 0) => (last'.err = "")
          /\ Assets' = Assets /\ Entries' = Entries]_vars

\* LinkTag was called with one attribute string and returned the error
C7_Witness ==
    /\ last.op = "LinkTag" /\ Len(last.attrs) = 1
    /\ last.err # "" /\ last.out = << >>

(***************************************************************************)
(* C8                                                                      *)
(***************************************************************************)
\* the walk meets its failing entry: a file that cannot be read is met
\* only when hashing reads it
MeetsFault(walk) ==
    /\ FirstFaultAt(walk) # 0
    /\ walk[FirstFaultAt(walk)].fault = "read" => HashLen > 0

\* C8: a scan that meets a filesystem error returns the error, does not
\* crash, keeps the keys it had and adds no asset of the failing entry or
\* of a later one.  (Hash lengths NewAsset cannot slice are left out.)
C8_ScanStopsWithError ==
    [][(last'.op = "ScanDir" /\ HashLen \in 0..DigestHexLen /\ MeetsFault(last'.walk)) =>
          /\ last'.err # "" /\ ~crashed'
          /\ \A k \in DOMAIN Assets : k \in DOMAIN Assets'
          /\ \A i \in DOMAIN last'.added :
                \E j \in 1..(FirstFaultAt(last'.walk) - 1) :
                    TrimPrefix(last'.walk[j].path, Slash) = last'.added[i].Path]_vars

(***************************************************************************)
(* C9                                                                      *)
(***************************************************************************)
\* the attribute string of the last rendering call
Rendered ==
    IF last.op = "ScriptTag" THEN SubSeq(last.out, 9, Len(last.out) - 10)
    ELSE IF last.op = "LinkTag" THEN SubSeq(last.out, 7, Len(last.out) - 2)
    ELSE last.out

Entities ==
    { <<"&", "a", "m", "p", ";">>, <<"&", "l", "t", ";">>, <<"&", "g", "t", ";">>,
      <<"&", "#", "3", "4", ";">>, <<"&", "#", "3", "9", ";">> }

\* C9: the attribute string of an attribute map (that of a script or link
\* tag included, with its forced src or href) holds no "<" or ">", no
\* quote but the two around each value, and no "&" but the first character
\* of an entity; it is, in some order of the keys, the bare name for async
\* and defer and key="value", both escaped, for every other key.
C9_AttributeEscaping ==
    (last.op \in {"attributeMapToString", "ScriptTag", "LinkTag"} /\ last.err = "") =>
        LET a == Rendered
            m == last.attrMap
        IN  /\ \A i \in DOMAIN a : a[i] \notin {"<", ">"}
            /\ Count(a, "\"") = 2 * Cardinality(DOMAIN m \ {Async, Defer})
            /\ \A i \in DOMAIN a :
                  a[i] = "&" => \E e \in Entities :
                                    i + Len(e) - 1 <= Len(a) /\ SubSeq(a, i, i + Len(e) - 1) = e
            /\ \E o \in KeyOrders(m) :
                  a = Join([i \in DOMAIN o |->
                               IF o[i] \in {Async, Defer} THEN o[i]
                               ELSE EscapeString(o[i]) \o <<"=", "\"">>
                                        \o EscapeString(m[o[i]]) \o <<"\"">>], Space)

\* a map whose key and value hold "<", ">", "&" and quotes was rendered
C9_Witness ==
    /\ last.op = "attributeMapToString" /\ DOMAIN last.attrMap = {KeyLt}
    /\ last.attrMap[KeyLt] = ValRaw
    /\ last.out = <<"k", "&", "l", "t", ";", "&", "g", "t", ";", "=", "\"",
                    "&", "l", "t", ";", "&", "#", "3", "4", ";", "&", "a", "m", "p", ";",
                    "&", "g", "t", ";", "&", "#", "3", "9", ";", "\"">>

(***************************************************************************)
(* C10                                                                     *)
(***************************************************************************)
\* C10: every Asset stored in Assets is stored under its Path and under
\* its PublicPath.
C10_DualKey ==
    \A k \in DOMAIN Assets :
        LET A == Assets[k]
        IN  /\ A.Path \in DOMAIN Assets /\ Assets[A.Path] = A
            /\ A.PublicPath \in DOMAIN Assets /\ Assets[A.PublicPath] = A

(***************************************************************************)
(* C11                                                                     *)
(***************************************************************************)
\* the css list of the record r, each element behind the public path prefix
Prefixed(r) == [j \in DOMAIN r.CSS |-> PublicPath \o r.CSS[j]]

\* the record's own public path when it passes the test keep, else nothing
Own(r, keep(_)) == IF keep(PublicPath \o r.File) THEN <<PublicPath \o r.File>> ELSE << >>

\* what the visited entry records named n add to the stylesheet list when
\* every element of a css list is kept (all = TRUE) or only those ending
\* in ".css"
RECURSIVE Stylesheets(_, _, _)
Stylesheets(recs, n, all) ==
    IF recs = << >> THEN << >>
    ELSE (IF Head(recs).IsEntry /\ Head(recs).Name = n
          THEN Own(Head(recs), EndsCss)
                   \o (IF all THEN Prefixed(Head(recs))
                       ELSE SelectSeq(Prefixed(Head(recs)), EndsCss))
          ELSE << >>) \o Stylesheets(Tail(recs), n, all)

\* what they add to the script list when no element of a css list goes
\* there (none = TRUE) or those ending in ".js" do
RECURSIVE Scripts(_, _, _)
Scripts(recs, n, none) ==
    IF recs = << >> THEN << >>
    ELSE (IF Head(recs).IsEntry /\ Head(recs).Name = n
          THEN Own(Head(recs), EndsJs)
                   \o (IF none THEN << >> ELSE SelectSeq(Prefixed(Head(recs)), EndsJs))
          ELSE << >>) \o Scripts(Tail(recs), n, none)

\* the names of the entries a load feeds
FedNames(recs) == {recs[i].Name : i \in {j \in DOMAIN recs : recs[j].IsEntry}}

\* C11: a Vite load appends every element of the css list of a visited
\* entry record, prefixed and in order, to the stylesheet list of the
\* entry the record names, and none of them to its script list.
C11_StylesheetsAppended ==
    [][(last'.op = "UseManifest" /\ last'.manifest.Type = "vite") =>
          \A n \in FedNames(Processed(last'.manifest)) :
              LET old == IF n \in DOMAIN Entries THEN Entries[n] ELSE NewEntry
                  recs == Processed(last'.manifest)
              IN  /\ n \in DOMAIN Entries'
                  /\ Entries'[n].CSS = old.CSS \o Stylesheets(recs, n, TRUE)
                  /\ Entries'[n].JS = old.JS \o Scripts(recs, n, TRUE)]_vars

\* C11 as amended: of the prefixed elements of the css list of a visited
\* entry record, those ending in ".css" are appended in order to the
\* stylesheet list of the entry the record names, those ending in ".js"
\* in order to its script list, and the others to neither list.
C11_StylesheetsClassified ==
    [][(last'.op = "UseManifest" /\ last'.manifest.Type = "vite") =>
          \A n \in FedNames(Processed(last'.manifest)) :
              LET old == IF n \in DOMAIN Entries THEN Entries[n] ELSE NewEntry
                  recs == Processed(last'.manifest)
              IN  /\ n \in DOMAIN Entries'
                  /\ Entries'[n].CSS = old.CSS \o Stylesheets(recs, n, FALSE)
                  /\ Entries'[n].JS = old.JS \o Scripts(recs, n, FALSE)]_vars

\* a load visited an entry record whose css list is o.css, p.js, i.png,
\* q.css: the two stylesheets end the stylesheet list in that order, the
\* script ends the script list, the image is in neither
C11_Witness ==
    /\ last.op = "UseManifest" /\ last.manifest.Type = "vite"
    /\ Processed(last.manifest) = <<RecAppMixed>>
    /\ Len(CSSEntry(NameApp)) >= 2 /\ Len(JSEntry(NameApp)) >= 2
    /\ SubSeq(CSSEntry(NameApp), Len(CSSEntry(NameApp)) - 1, Len(CSSEntry(NameApp)))
           = <<PublicPath \o FileOCss, PublicPath \o FileQCss>>
    /\ SubSeq(JSEntry(NameApp), Len(JSEntry(NameApp)) - 1, Len(JSEntry(NameApp)))
           = <<PublicPath \o FileO, PublicPath \o FileP>>
    /\ (PublicPath \o FilePng) \notin Range(CSSEntry(NameApp)) \cup Range(JSEntry(NameApp))

(***************************************************************************)
(* C12                                                                     *)
(***************************************************************************)
IsPrefix(s, t) == Len(s) <= Len(t) /\ SubSeq(t, 1, Len(s)) = s

\* C12: no step removes an entry, and the stylesheet list and the script
\* list an entry had before a step are prefixes of those it has after it.
C12_EntriesAppendOnly ==
    [][\A n \in DOMAIN Entries :
          /\ n \in DOMAIN Entries'
          /\ IsPrefix(Entries[n].CSS, Entries'[n].CSS)
          /\ IsPrefix(Entries[n].JS, Entries'[n].JS)]_vars

\* the manifest of app was loaded a second time (its paths are in the
\* lists twice) and CreateEntry was then called for app, which kept them
C12_Witness ==
    /\ last.op = "CreateEntry" /\ last.path = NameApp
    /\ CSSEntry(NameApp) = <<PublicPath \o FileOCss, PublicPath \o FileOCss>>
    /\ JSEntry(NameApp) = <<PublicPath \o FileO, PublicPath \o FileO>>

(***************************************************************************)
(* C13                                                                     *)
(***************************************************************************)
LinkOps == {"LinkTag", "CSSLinkTagsFromEntry"}

\* the keys of the caller's pairs
CallerKeys(attrs) == {attrs[2 * i - 1] : i \in 1..(Len(attrs) \div 2)}

\* the value of the last of the caller's pairs whose key is k
LastValue(attrs, k) ==
    LET at == {i \in 1..(Len(attrs) \div 2) : attrs[2 * i - 1] = k}
        i == CHOOSE j \in at : \A l \in at : l <= j
    IN  attrs[2 * i]

\* the attributes a tag of the call must carry: the resource attribute
\* (href of a link, src of a script) with the value link whatever the
\* caller gave for it, every other key of the caller with the value of its
\* last pair, and rel="stylesheet" on a link when the caller gave no rel
Expected(op, attrs, link) ==
    LET resource == IF op \in LinkOps THEN Href ELSE Src
        keys == CallerKeys(attrs) \cup {resource} \cup (IF op \in LinkOps THEN {Rel} ELSE {})
    IN  [k \in keys |-> IF k = resource THEN link
                        ELSE IF k \in CallerKeys(attrs) THEN LastValue(attrs, k)
                        ELSE Stylesheet]

\* the tags that carry each attribute of the map m once, in some order
TagsOf(op, m) ==
    {(IF op \in LinkOps THEN linkTag(a) ELSE scriptTag(a)) :
        a \in {Join([i \in DOMAIN o |-> attribute(m, o[i])], Space) : o \in KeyOrders(m)}}

\* C13: a tag returned by ScriptTag, LinkTag, CSSLinkTagsFromEntry or
\* JSScriptTagsFromEntry carries each key once: href (src for a script)
\* with Get(path), or with the entry's stored path, even when the caller
\* gave that key; every other key of the caller with the value of its last
\* pair; and on a link rel="stylesheet" unless the caller gave a rel pair.
C13_AttributePrecedence ==
    (last.op \in TagOps /\ last.err = "") =>
        IF last.op \in {"ScriptTag", "LinkTag"}
        THEN last.out \in TagsOf(last.op, Expected(last.op, last.attrs, Get(last.path)))
        ELSE LET paths == IF last.op = "CSSLinkTagsFromEntry"
                          THEN CSSEntry(last.path) ELSE JSEntry(last.path)
             IN  /\ Len(last.out) = Len(paths)
                 /\ \A i \in DOMAIN paths :
                       last.out[i] \in TagsOf(last.op, Expected(last.op, last.attrs, paths[i]))

\* LinkTag was called for a registered path with the caller's own rel
\* pair: the tag has the caller's rel and the registered public path
C13_Witness ==
    /\ last.op = "LinkTag" /\ last.attrs = <<Rel, ValX>> /\ last.path = PathT
    /\ PathT \in DOMAIN Assets
    /\ LET rel == <<"r", "e", "l", "=", "\"", "x", "\"">>
           href == <<"h", "r", "e", "f", "=", "\"">> \o EscapeString(Assets[PathT].PublicPath) \o <<"\"">>
       IN  last.out \in {linkTag(rel \o Space \o href), linkTag(href \o Space \o rel)}

(***************************************************************************)
(* C14                                                                     *)
(***************************************************************************)
\* C14: NewAsset on a readable file does not crash, whatever the hash
\* length; the asset it builds (seen when AddAsset stores it) has an empty
\* Hash and the public path prefix + path when the hash length is zero or
\* negative, and the first HashLen hex digits of the content's digest when
\* the hash length is from 1 to the digest's length.
C14_HashTruncation ==
    last.op = "AddAsset" =>
        /\ ~crashed /\ last.err = ""
        /\ last.renew =>
              /\ Len(last.added) = 1
              /\ last.added[1].Path = TrimPrefix(last.path, Slash)
              /\ HashLen <= 0 =>
                    /\ last.added[1].Hash = Empty
                    /\ last.added[1].PublicPath = PublicPath \o last.added[1].Path
              /\ HashLen \in 1..DigestHexLen =>
                    /\ Len(last.added[1].Hash) = HashLen
                    /\ \A i \in 1..HashLen :
                          last.added[1].Hash[i] = Digest(last.content)[i]

=============================================================================
